---- MODULE Spec2Model ----
(***************************************************************************)
(* MetaGrid measurement harnesses (Testing/Failure, Testing/StartupTime,   *)
(* Testing/Latency): the main goroutine, the interrupt-handler goroutine,  *)
(* the readiness cycle of measureDetailedStartupTime, the registry and     *)
(* health probes, and the load generator testServices.                     *)
(*                                                                         *)
(* Time is counted in ticker periods (1 s).  A lifecycle command, a probe  *)
(* and a sleep are blocking calls: mainPc names the call the main          *)
(* goroutine is blocked in, and the action named after the call is its     *)
(* return together with everything main does up to its next blocking call. *)
(***************************************************************************)
EXTENDS Integers, Sequences, FiniteSets, TLC

\* ------------------------------------------------------------------ bounds
\* Number of directories below the services root (the walk finds them all).
NumDirs == 2
\* Trials of the failure and the startup harness (the code runs 5).
NumTrials == 2
\* The readiness timeout in ticker periods (the code: 2 minutes of 1 s ticks).
TimeoutTicks == 2
\* Longest health-check list the registry answers with.
MaxChecks == 2
\* Endpoints of the load test (the code lists 3).
NumServices == 2
\* The highest stress level (the code runs 10, 50, 100, 200, 500).
MaxStress == 2
\* Entries of the filesystem below the services root.
MaxNodes == 3
\* Longest time, in seconds, a goroutine waits for the processor before it
\* reads the clock.
MaxSlack == 1
\* Longest directory name, in characters, and deepest directory path.
MaxNameLen == 2
MaxDepth == 2
\* Longest start command, in ticker periods.
MaxCmdTicks == 2
\* Ports of the range a CRUD service looks for a free port in.
MaxPorts == 2

\* The clock of a readiness cycle saturates one period after the timeout:
\* MaxClock stands for every later instant.
MaxClock == TimeoutTicks + 1

Dirs == 1 .. NumDirs
Trials == 1 .. NumTrials
Services == 1 .. NumServices

\* stressLevels of the load harness, scaled down: the lowest and the highest.
stressLevels == <<1, MaxStress>>

VARIABLES
    harness,        \* which program runs: "failure" | "startup" | "latency"
    mainPc,         \* the blocking call or program point main is at
    trial,          \* i of main's trial loop
    dirIdx,         \* position of the range loop over serviceDirs main is in
    serviceDirs,    \* the global slice getSubdirectories builds
    cmdTime,        \* ticker periods the start command of a measurement
                    \* takes (timing alone; no time elsewhere)
    cwd,            \* working directory of the process: currentDir or a
                    \* service directory
    leader,         \* the answer the pre-flight request got (NoAnswer before)
    reports,        \* per trial: the report file and its bufio.Writer
    wrote,          \* the row main's last step passed to writer.WriteString
    issued,         \* lifecycle commands main has run so far (their kinds)
    now,            \* ticker periods since the cycle's timer was created
    timerFired,     \* the time.After channel holds its value
    tickPending,    \* ticker.C holds a tick (capacity 1, later ticks dropped)
    consulReady,    \* local of measureDetailedStartupTime
    serviceHealthy, \* local of measureDetailedStartupTime
    consulTime,     \* failureDectectionTime / consulCheckTime
    healthTime,     \* recoveryTime / healthCheckTime
    ret,            \* what measureDetailedStartupTime returned: values, err
    hPc,            \* handler goroutine: "waiting" | "stopping" | "exited"
    hDirs,          \* the slice value the handler passed to shutdownAllServices
    hStops,         \* directories the handler has run docker-compose down in
    hFailed,        \* some docker-compose down of the handler failed
    sigMidTrial,    \* the signal arrived while main was inside a trial
    exited,         \* the process has ended
    exitCode,       \* its exit code (-1 while running)
    exitBy,         \* "none" | "fatal" | "main" | "handler"
    probeResp,      \* input of the probe under test (probe specification)
    probeResult,    \* its result: "none" before the call, "true" | "false"
    probeFn,        \* the function that was called: "none" | "consul" |
                    \* "health" | "walk" | "readdir"
    tree,           \* the filesystem below the services root (resolver alone)
    listing,        \* what getSubdirectories built from it
    start,          \* start of a load request goroutine (request alone)
    latency,        \* latency of that goroutine, in seconds
    svc,            \* one CRUD service process and its registry entry
                    \* (service alone)
    services,       \* the Service values built for one directory, one per
                    \* trial (identity alone)
    level,          \* index into stressLevels of the running testServices call
    spawned,        \* goroutines the call has started (go func ...)
    pending,        \* per endpoint: goroutines that have not sent their GET
    inflight,       \* per endpoint: goroutines inside client.Get
    wg,             \* the WaitGroup counter
    results,        \* the results channel: how many of each TestResult it holds
    requests,       \* GETs sent by the running call
    batchRows,      \* rows the running call passed to csvWriter.Write
    lastFailed,     \* the last GET that returned had err != nil or a status # 200
    csv             \* test_results.csv: its state, the data rows passed to
                    \* csvWriter.Write, the records still in the writer's buffer

cycleVars == <<now, timerFired, tickPending, consulReady, serviceHealthy,
               consulTime, healthTime>>
handlerVars == <<hPc, hDirs, hStops, hFailed, sigMidTrial>>
exitVars == <<exited, exitCode, exitBy>>
probeVars == <<probeResp, probeResult, probeFn, tree, listing, start,
              latency, services, svc>>
loadVars == <<level, spawned, pending, inflight, wg, results, requests,
              batchRows, lastFailed, csv>>
mainVars == <<harness, mainPc, trial, dirIdx, serviceDirs, leader, reports,
              wrote, issued, ret, cwd, cmdTime>>
vars == <<mainVars, cycleVars, handlerVars, exitVars, probeVars, loadVars>>

\* ---------------------------------------------------------- probe answers
\* The value of an entry's "Status" key after json.Unmarshal into
\* map[string]interface{}: absent (also a null entry: a nil map), a string,
\* or a value of another JSON type.
StatusValues ==
    { [type |-> "string", s |-> "passing"],
      [type |-> "string", s |-> "critical"],
      [type |-> "string", s |-> "Passing"],
      [type |-> "number", s |-> ""],
      [type |-> "absent", s |-> ""] }

CheckLists == UNION { [1 .. n -> StatusValues] : n \in 0 .. MaxChecks }

\* A response body: unreadable (ReadAll fails), not a JSON list of objects
\* (Unmarshal fails), or a list of check entries.
Bodies ==
    { [kind |-> "unreadable", checks |-> <<>>],
      [kind |-> "malformed", checks |-> <<>>] }
    \cup { [kind |-> "list", checks |-> c] : c \in CheckLists }

StatusCodes == {200, 404, 503}

\* What an HTTP GET comes back with: a transport error (also a timeout), or
\* a status code and a body.
ConsulResponses ==
    { [err |-> TRUE, code |-> 0, body |-> [kind |-> "malformed", checks |-> <<>>]] }
    \cup { [err |-> FALSE, code |-> c, body |-> b] : c \in StatusCodes, b \in Bodies }

Passing == [type |-> "string", s |-> "passing"]
Critical == [type |-> "string", s |-> "critical"]

\* The registry answers a readiness cycle meets.
CycleConsulAnswers ==
    { [err |-> TRUE, code |-> 0, body |-> [kind |-> "malformed", checks |-> <<>>]],
      [err |-> FALSE, code |-> 200,
       body |-> [kind |-> "list", checks |-> <<Passing>>]],
      [err |-> FALSE, code |-> 200,
       body |-> [kind |-> "list", checks |-> <<Passing, Critical>>]] }

\* The health endpoint's answers: NewRequest or client.Do fails (transport
\* error, client timeout), or a status code with a body of text that
\* ioutil.ReadAll reads to its end ("malformed": no JSON list) or fails on.
HealthResponses ==
    { [err |-> TRUE, code |-> 0, body |-> [kind |-> "malformed", checks |-> <<>>]] }
    \cup { [err |-> FALSE, code |-> c, body |-> [kind |-> k, checks |-> <<>>]] :
             c \in StatusCodes, k \in {"malformed", "unreadable"} }

\* The registry's answers to the pre-flight GET /v1/status/leader.
LeaderResponses ==
    { [err |-> TRUE, code |-> 0], [err |-> FALSE, code |-> 200],
      [err |-> FALSE, code |-> 503] }

\* No answer yet.
NoAnswer == [err |-> FALSE, code |-> -1]

\* The loop over checks of isConsulServiceHealthy, from entry i on: the
\* comma-ok type assertion, then the comparison with "passing"; the first
\* entry that fails either returns false.
RECURSIVE checksLoop(_, _)
checksLoop(checks, i) ==
    IF i > Len(checks) THEN TRUE
    ELSE IF checks[i].type # "string" THEN FALSE
    ELSE IF checks[i].s # "passing" THEN FALSE
    ELSE checksLoop(checks, i + 1)

\* isConsulServiceHealthy without the test for an empty list.
isConsulServiceHealthyNoEmptyTest(resp) ==
    IF resp.err THEN FALSE
    ELSE IF resp.code # 200 THEN FALSE
    ELSE IF resp.body.kind = "unreadable" THEN FALSE
    ELSE IF resp.body.kind = "malformed" THEN FALSE
    ELSE checksLoop(resp.body.checks, 1)

isConsulServiceHealthy(resp) ==
    IF resp.err THEN FALSE
    ELSE IF resp.code # 200 THEN FALSE
    ELSE IF resp.body.kind = "unreadable" THEN FALSE
    ELSE IF resp.body.kind = "malformed" THEN FALSE
    ELSE IF Len(resp.body.checks) = 0 THEN FALSE
    ELSE checksLoop(resp.body.checks, 1)

\* isServiceHealthy without the comparison of the status code.
isServiceHealthyAnyStatus(resp) ==
    IF resp.err THEN FALSE
    ELSE IF resp.body.kind = "unreadable" THEN FALSE
    ELSE TRUE

\* NewRequest or client.Do fails: false; ioutil.ReadAll of the body fails:
\* false; otherwise the comparison of the status code with 200.
isServiceHealthy(resp) ==
    IF resp.err THEN FALSE
    ELSE IF resp.body.kind = "unreadable" THEN FALSE
    ELSE resp.code = 200

\* A pre-flight test that looks at the request error alone.
leaderReachableErrOnly(resp) ==
    ~ resp.err

\* The pre-flight test of main: err != nil || resp.StatusCode != 200 is fatal.
leaderReachable(resp) ==
    ~ (resp.err \/ resp.code # 200)

\* ------------------------------------------------------------ the reports
\* A report file and its bufio.Writer: rows counts the data rows passed to
\* WriteString, flushed tells whether the buffer has reached the file.
NoReport == [state |-> "none", rows |-> 0, flushed |-> FALSE]

\* os.Create succeeded and the header went into the bufio.Writer.
OpenReport == [state |-> "open", rows |-> 0, flushed |-> FALSE]

\* Data rows a reader finds in the report's file: what WriteString was given
\* stays in the bufio.Writer (4096 bytes, a trial's rows are far fewer)
\* until Flush.
fileRows(r) == IF r.flushed THEN r.rows ELSE 0

\* Deferred calls in the other order: the file is closed first and the
\* Flush that follows cannot write.
closeThenFlush(r) ==
    IF r.state = "open" THEN [r EXCEPT !.state = "closed"] ELSE r

\* The deferred writer.Flush() and outputFile.Close() of one trial, run in
\* that order when main returns.
flushAndClose(r) ==
    IF r.state = "open" THEN [r EXCEPT !.state = "closed", !.flushed = TRUE]
    ELSE r

\* The data row main writes after a successful measurement: the format
\* arguments in the order the code passes them.
dataRow(h, name, r) ==
    IF h = "failure" THEN <<name, r.consul, r.health>>
    ELSE <<name, r.total, r.consul, r.health, r.passed, r.container>>

\* An error path that returns the zero values with a nil error.
errReturnNil(e) ==
    [err |-> "nil", total |-> 0, consul |-> 0, health |-> 0, passed |-> FALSE,
     container |-> 0]

\* What measureDetailedStartupTime returns.
errReturn(e) ==
    [err |-> e, total |-> 0, consul |-> 0, health |-> 0, passed |-> FALSE,
     container |-> 0]

\* Times taken from the moment the ticker was made.
okReturnSinceTicker(h, t, ct, ht, cr) ==
    [err |-> "nil", total |-> IF h = "startup" THEN t ELSE 0, consul |-> ct,
     health |-> ht, passed |-> IF h = "startup" THEN cr ELSE FALSE,
     container |-> IF h = "startup" THEN cmdTime ELSE 0]

\* The values of the return at the end of a both-ready tick.  Every time is
\* time.Since(startTime), and startTime was taken before the start command
\* ran: cmdTime periods before the ticker was made, from which t, ct and ht
\* count.  containerStartTime is the time the command took.
okReturn(h, t, ct, ht, cr) ==
    [err |-> "nil", total |-> IF h = "startup" THEN cmdTime + t ELSE 0,
     consul |-> cmdTime + ct, health |-> cmdTime + ht,
     passed |-> IF h = "startup" THEN cr ELSE FALSE,
     container |-> IF h = "startup" THEN cmdTime ELSE 0]

NoReturn == errReturn("none")

\* ------------------------------------------------------ load results
\* A TestResult as far as a row shows it: the endpoint, Success and
\* ConcurrentGroup.
ResultKinds ==
    [name : Services, success : BOOLEAN, group : 1 .. MaxStress]

NoResults == [k \in ResultKinds |-> 0]

RECURSIVE sumOver(_, _)
sumOver(f, S) ==
    IF S = {} THEN 0
    ELSE LET x == CHOOSE y \in S : TRUE
         IN f[x] + sumOver(f, S \ {x})

\* Number of results a channel or a file holds.
count(b) == sumOver(b, ResultKinds)

\* ---------------------------------------------------- working directory
\* The directory the harness was started in, which os.Getwd stored in the
\* global currentDir; service directories are 1 .. NumDirs.
currentDir == 0

\* The deferred function of measureDetailedStartupTime: os.Chdir(currentDir);
\* a failure is printed as a warning and the directory stays what it was.
chdirBack(ok, dir) == IF ok THEN currentDir ELSE dir

\* ------------------------------------------------------- CRUD services
\* A service process that was not started.
IdleService ==
    [kind |-> "none", occupied |-> {}, pc |-> "idle", port |-> 0,
     serving |-> FALSE, sig |-> FALSE, registered |-> FALSE,
     exitHow |-> "none"]

\* --------------------------------------------------------------- Init
cycleReset ==
    /\ now' = 0
    /\ timerFired' = FALSE
    /\ tickPending' = FALSE
    /\ consulReady' = FALSE
    /\ serviceHealthy' = FALSE
    /\ consulTime' = 0
    /\ healthTime' = 0

IdleProbe ==
    [err |-> TRUE, code |-> 0, body |-> [kind |-> "malformed", checks |-> <<>>]]

InitCommon ==
    /\ mainPc = "preflight"
    /\ trial = 0
    /\ dirIdx = 0
    /\ serviceDirs = <<>>
    /\ leader = NoAnswer
    /\ reports = [t \in Trials |-> NoReport]
    /\ wrote = <<>>
    /\ cwd = currentDir
    /\ issued = {}
    /\ now = 0
    /\ timerFired = FALSE
    /\ tickPending = FALSE
    /\ consulReady = FALSE
    /\ serviceHealthy = FALSE
    /\ consulTime = 0
    /\ healthTime = 0
    /\ ret = NoReturn
    /\ hPc = "waiting"
    /\ hDirs = <<>>
    /\ hStops = <<>>
    /\ hFailed = FALSE
    /\ sigMidTrial = FALSE
    /\ exited = FALSE
    /\ exitCode = -1
    /\ exitBy = "none"
    /\ probeFn = "none"
    /\ listing = <<>>
    /\ start = 0
    /\ latency = 0
    /\ services = <<>>
    /\ level = 0
    /\ spawned = 0
    /\ pending = [s \in Services |-> 0]
    /\ inflight = [s \in Services |-> 0]
    /\ wg = 0
    /\ results = NoResults
    /\ requests = 0
    /\ batchRows = NoResults
    /\ lastFailed = FALSE
    /\ csv = [state |-> "none", rows |-> 0, buffered |-> 0]

Init ==
    /\ harness \in {"failure", "startup"}
    /\ InitCommon
    /\ cmdTime = 0
    /\ svc = IdleService
    /\ tree = <<>>
    /\ probeResp = IdleProbe
    /\ probeResult = "none"

\* ------------------------------------------------------- process exit
\* main returns: the deferred Flush and Close of every report opened so far
\* run, and the process ends with code 0.
mainReturn ==
    /\ reports' = [t \in Trials |-> flushAndClose(reports[t])]
    /\ mainPc' = "exited"
    /\ exited' = TRUE
    /\ exitCode' = 0
    /\ exitBy' = "main"

\* The first command measureDetailedStartupTime runs in the service's
\* directory, and the second one.
firstCmd(h) == IF h = "failure" THEN "up" ELSE "down"
secondCmd(h) == IF h = "failure" THEN "scale" ELSE "up"

\* A measurement that returns the error of its first command in either
\* harness.
firstCmdFatalAlways(h) == TRUE

\* Whether a failure of the first command makes the measurement return.
firstCmdFatal(h) == h = "failure"

\* ------------------------------------------------------------ main
\* http.Get(consulURL) returns; a failure is log.Fatalf, that is os.Exit(1).
Preflight ==
    /\ ~ exited
    /\ mainPc = "preflight"
    /\ \E resp \in LeaderResponses :
        /\ leader' = resp
        /\ IF leaderReachable(resp)
           THEN /\ mainPc' = "resolve"
                /\ UNCHANGED exitVars
           ELSE /\ mainPc' = "exited"
                /\ exited' = TRUE
                /\ exitCode' = 1
                /\ exitBy' = "fatal"
    /\ UNCHANGED <<harness, cmdTime, cwd, trial, dirIdx, serviceDirs, reports, wrote, issued,
                   ret, cycleVars, handlerVars, probeVars, loadVars>>

\* One callback of filepath.Walk in getSubdirectories: the next directory is
\* appended to the global slice.
ResolveAppend ==
    /\ ~ exited
    /\ mainPc = "resolve"
    /\ Len(serviceDirs) < NumDirs
    /\ serviceDirs' = Append(serviceDirs, Len(serviceDirs) + 1)
    /\ UNCHANGED <<harness, cmdTime, cwd, mainPc, trial, dirIdx, leader, reports, wrote,
                   issued, ret, cycleVars, handlerVars, exitVars, probeVars, loadVars>>

\* The walk hands the callback an error: getSubdirectories returns it and
\* main returns.
ResolveError ==
    /\ ~ exited
    /\ mainPc = "resolve"
    /\ Len(serviceDirs) < NumDirs
    /\ mainReturn
    /\ UNCHANGED <<harness, cmdTime, cwd, trial, dirIdx, serviceDirs, leader, wrote, issued,
                   ret, cycleVars, handlerVars, probeVars, loadVars>>

\* The walk is complete: main enters the trial loop with i = 1; the load
\* harness enters its loop of runDockerComposeUp.
ResolveDone ==
    /\ ~ exited
    /\ mainPc = "resolve"
    /\ Len(serviceDirs) = NumDirs
    /\ IF harness = "latency"
       THEN /\ mainPc' = "upAll"
            /\ dirIdx' = 1
            /\ UNCHANGED trial
       ELSE /\ mainPc' = "trial"
            /\ trial' = 1
            /\ UNCHANGED dirIdx
    /\ UNCHANGED <<harness, cmdTime, cwd, serviceDirs, leader, reports, wrote, issued,
                   ret, cycleVars, handlerVars, exitVars, probeVars, loadVars>>

\* Top of the trial loop: os.Create of the trial's report; on failure main
\* returns, otherwise the header is written and the service loop starts.
TrialOpen ==
    /\ ~ exited
    /\ mainPc = "trial"
    /\ \/ /\ mainReturn
          /\ UNCHANGED <<dirIdx>>
       \/ /\ reports' = [reports EXCEPT ![trial] = OpenReport]
          /\ mainPc' = "service"
          /\ dirIdx' = 1
          /\ UNCHANGED exitVars
    /\ UNCHANGED <<harness, cmdTime, cwd, trial, serviceDirs, leader, wrote, issued, ret,
                   cycleVars, handlerVars, probeVars, loadVars>>

\* measureDetailedStartupTime is entered for serviceDirs[dirIdx]: os.Chdir,
\* then the first command is started (in the failure harness after the 5 s
\* sleep).  A failed Chdir returns the error.
MeasureBegin ==
    /\ ~ exited
    /\ mainPc = "service"
    /\ dirIdx <= Len(serviceDirs)
    /\ wrote' = <<>>
    /\ \/ /\ mainPc' = "returned"
          /\ ret' = errReturn("chdir")
          /\ UNCHANGED <<issued, cwd>>
       \/ /\ mainPc' = "cmd1"
          /\ cwd' = serviceDirs[dirIdx]
          /\ issued' = issued \cup {firstCmd(harness)}
          /\ UNCHANGED ret
    /\ UNCHANGED <<harness, cmdTime, trial, dirIdx, serviceDirs, leader, reports,
                   cycleVars, handlerVars, exitVars, probeVars, loadVars>>

\* The first command returns.  The startup harness only warns when its
\* docker-compose down failed; the failure harness returns the error.  Then
\* startTime is taken and the second command is started.
Cmd1Returns ==
    /\ ~ exited
    /\ mainPc = "cmd1"
    /\ \E ok \in BOOLEAN :
        IF ok \/ ~ firstCmdFatal(harness)
        THEN /\ mainPc' = "cmd2"
             /\ issued' = issued \cup {secondCmd(harness)}
             /\ UNCHANGED ret
        ELSE /\ mainPc' = "returned"
             /\ ret' = errReturn("start")
             /\ UNCHANGED issued
    /\ UNCHANGED <<harness, cmdTime, cwd, trial, dirIdx, serviceDirs, leader, reports, wrote,
                   cycleVars, handlerVars, exitVars, probeVars, loadVars>>

\* The second command returns: on failure the error is returned, otherwise
\* the timeout timer and the ticker are created and the loop blocks in select.
Cmd2Returns ==
    /\ ~ exited
    /\ mainPc = "cmd2"
    /\ \/ /\ mainPc' = "returned"
          /\ ret' = errReturn(IF harness = "failure" THEN "scale" ELSE "start")
       \/ /\ mainPc' = "select"
          /\ UNCHANGED ret
    /\ UNCHANGED <<harness, cmdTime, cwd, trial, dirIdx, serviceDirs, leader, reports, wrote,
                   issued, cycleVars, handlerVars, exitVars, probeVars, loadVars>>

\* ------------------------------------------------- the readiness cycle
CyclePcs == {"select", "consul", "health"}

\* A tick that probes the registry whatever consulReady holds.
firstProbeUnguarded(cr) == "consul"

\* The probe a tick starts with: the registry unless consulReady is set.
firstProbe(cr) == IF ~ cr THEN "consul" ELSE "health"

\* After the registry part of a tick: the health probe unless serviceHealthy.
afterConsul(sh) == IF ~ sh THEN "health" ELSE "tickEnd"

\* A tick that never returns.
tickEndNoReturn(cr, sh) == "select"

\* A tick that returns as soon as one of the flags is set.
tickEndEither(cr, sh) == IF cr \/ sh THEN "returned" ELSE "select"

\* End of a tick: return when both flags are set, else back to select.
tickEnd(cr, sh) == IF cr /\ sh THEN "returned" ELSE "select"

\* A timer that never fires.
timerNever(t) == FALSE

\* time.After(2 * time.Minute): the channel holds its value from the instant
\* TimeoutTicks on.
timerExpired(t) == t >= TimeoutTicks

\* A ticker period passes while main is inside the polling loop.  The ticker
\* puts a tick into ticker.C (a tick that finds the channel full is dropped);
\* the timer, created before the ticker, fires at TimeoutTicks.  A goroutine
\* blocked in select is woken by the first channel that becomes ready, so no
\* time passes while main stands at select with a channel ready, and at the
\* instant TimeoutTicks a blocked select is woken by the timer.
ClockAdvance ==
    /\ ~ exited
    /\ mainPc \in CyclePcs
    /\ ~ (mainPc = "select" /\ (timerFired \/ tickPending))
    /\ now' = IF now < MaxClock THEN now + 1 ELSE now
    /\ timerFired' = (timerFired \/ timerExpired(now + 1))
    /\ tickPending' = ~ (mainPc = "select" /\ now + 1 = TimeoutTicks)
    /\ UNCHANGED <<mainVars, consulReady, serviceHealthy, consulTime,
                   healthTime, handlerVars, exitVars, probeVars, loadVars>>

\* select takes case <-timeout: the error is returned.
SelectTimeout ==
    /\ ~ exited
    /\ mainPc = "select"
    /\ timerFired
    /\ mainPc' = "returned"
    /\ ret' = errReturn("timeout")
    /\ UNCHANGED <<harness, cmdTime, cwd, trial, dirIdx, serviceDirs, leader, reports, wrote,
                   issued, cycleVars, handlerVars, exitVars, probeVars, loadVars>>

\* select takes case <-ticker.C: the tick's first probe is sent.
SelectTick ==
    /\ ~ exited
    /\ mainPc = "select"
    /\ tickPending
    /\ tickPending' = FALSE
    /\ mainPc' = firstProbe(consulReady)
    /\ UNCHANGED <<harness, cmdTime, cwd, trial, dirIdx, serviceDirs, leader, reports, wrote,
                   issued, ret, now, timerFired, consulReady, serviceHealthy,
                   consulTime, healthTime, handlerVars, exitVars, probeVars, loadVars>>

\* What the cycle does once the probes of a tick are done.
cycleStep(pc, cr, sh, ct, ht) ==
    /\ mainPc' = pc
    /\ ret' = IF pc = "returned"
              THEN okReturn(harness, now, ct, ht, cr)
              ELSE ret

\* isConsulServiceHealthy returns inside a tick.
ConsulProbeReturns ==
    /\ ~ exited
    /\ mainPc = "consul"
    /\ \E resp \in CycleConsulAnswers :
        LET cr == isConsulServiceHealthy(resp)
            ct == IF cr THEN now ELSE consulTime
            nxt == afterConsul(serviceHealthy)
        IN /\ consulReady' = cr
           /\ consulTime' = ct
           /\ cycleStep(IF nxt = "tickEnd" THEN tickEnd(cr, serviceHealthy)
                        ELSE nxt, cr, serviceHealthy, ct, healthTime)
    /\ UNCHANGED <<harness, cmdTime, cwd, trial, dirIdx, serviceDirs, leader, reports, wrote,
                   issued, now, timerFired, tickPending, serviceHealthy,
                   healthTime, handlerVars, exitVars, probeVars, loadVars>>

\* isServiceHealthy returns inside a tick.
HealthProbeReturns ==
    /\ ~ exited
    /\ mainPc = "health"
    /\ \E resp \in HealthResponses :
        LET sh == isServiceHealthy(resp)
            ht == IF sh THEN now ELSE healthTime
        IN /\ serviceHealthy' = sh
           /\ healthTime' = ht
           /\ cycleStep(tickEnd(consulReady, sh), consulReady, sh,
                        consulTime, ht)
    /\ UNCHANGED <<harness, cmdTime, cwd, trial, dirIdx, serviceDirs, leader, reports, wrote,
                   issued, now, timerFired, tickPending, consulReady,
                   consulTime, handlerVars, exitVars, probeVars, loadVars>>

\* A service loop that writes a row whatever err is.
writesRowAlways(r) == TRUE

\* main writes the row unless measureDetailedStartupTime returned an error
\* (if err != nil { ...; continue }).
writesRow(r) == r.err = "nil"

\* measureDetailedStartupTime returns: its deferred function runs, unless
\* the return was the one before the defer statement (the failed Chdir).
\* Back in main's service loop an error is printed and the loop continues,
\* otherwise the row is written.
MeasureReturned ==
    /\ ~ exited
    /\ mainPc = "returned"
    /\ IF ret.err = "chdir"
       THEN cwd' = cwd
       ELSE \E ok \in BOOLEAN : cwd' = chdirBack(ok, cwd)
    /\ IF ~ writesRow(ret)
       THEN UNCHANGED <<reports, wrote>>
       ELSE LET row == dataRow(harness, serviceDirs[dirIdx], ret)
            IN /\ reports' = [reports EXCEPT
                                ![trial].rows = @ + 1]
               /\ wrote' = row
    /\ ret' = NoReturn
    /\ cycleReset
    /\ dirIdx' = dirIdx + 1
    /\ mainPc' = "service"
    /\ UNCHANGED <<harness, cmdTime, trial, serviceDirs, leader, issued, handlerVars,
                   exitVars, probeVars, loadVars>>

\* ------------------------------------------------- end of a trial
\* A loop that gives up at the first failed command.
shutdownNextAbort(dirs, i, ok) == IF ok THEN i + 1 ELSE Len(dirs) + 1

\* The next index of the loop of shutdownAllServices after the command in
\* directory i returned: a failure is printed and the loop goes on.
shutdownNext(dirs, i, ok) == i + 1

\* The service loop is over: main calls shutdownAllServices(serviceDirs).
ShutdownBegin ==
    /\ ~ exited
    /\ mainPc = "service"
    /\ dirIdx > Len(serviceDirs)
    /\ mainPc' = "shutdown"
    /\ dirIdx' = 1
    /\ wrote' = <<>>
    /\ UNCHANGED <<harness, cmdTime, cwd, trial, serviceDirs, leader, reports, issued, ret,
                   cycleVars, handlerVars, exitVars, probeVars, loadVars>>

\* One docker-compose down of main's shutdownAllServices returns.
ShutdownStep ==
    /\ ~ exited
    /\ mainPc = "shutdown"
    /\ dirIdx <= Len(serviceDirs)
    /\ \E ok \in BOOLEAN : dirIdx' = shutdownNext(serviceDirs, dirIdx, ok)
    /\ issued' = issued \cup {"down"}
    /\ UNCHANGED <<harness, cmdTime, cwd, mainPc, trial, serviceDirs, leader, reports, wrote,
                   ret, cycleVars, handlerVars, exitVars, probeVars, loadVars>>

\* shutdownAllServices returned: the cooldown sleep, or after the last trial
\* the end of main.
ShutdownDone ==
    /\ ~ exited
    /\ mainPc = "shutdown"
    /\ dirIdx > Len(serviceDirs)
    /\ IF trial < NumTrials
       THEN /\ mainPc' = "cooldown"
            /\ UNCHANGED <<reports, exitVars>>
       ELSE mainReturn
    /\ UNCHANGED <<harness, cmdTime, cwd, trial, dirIdx, serviceDirs, leader, wrote, issued,
                   ret, cycleVars, handlerVars, probeVars, loadVars>>

\* time.Sleep of the cooldown returns: the next trial.
CooldownEnds ==
    /\ ~ exited
    /\ mainPc = "cooldown"
    /\ trial' = trial + 1
    /\ mainPc' = "trial"
    /\ UNCHANGED <<harness, cmdTime, cwd, dirIdx, serviceDirs, leader, reports, wrote, issued,
                   ret, cycleVars, handlerVars, exitVars, probeVars, loadVars>>

\* ------------------------------------------------- the interrupt handler
TrialPcs == {"service", "cmd1", "cmd2", "select", "consul", "health",
             "returned", "shutdown"}

\* SIGINT or SIGTERM arrives: the handler goroutine leaves <-sigChan and
\* calls shutdownAllServices with the value serviceDirs has at that moment.
Signal ==
    /\ ~ exited
    /\ hPc = "waiting"
    /\ hPc' = "stopping"
    /\ hDirs' = serviceDirs
    /\ sigMidTrial' = (mainPc \in TrialPcs)
    /\ UNCHANGED <<mainVars, cycleVars, hStops, hFailed, exitVars, probeVars, loadVars>>

\* One docker-compose down of the handler's shutdownAllServices returns.
HandlerStop ==
    /\ ~ exited
    /\ hPc = "stopping"
    /\ Len(hStops) < Len(hDirs)
    /\ \E ok \in BOOLEAN :
        LET i == Len(hStops) + 1
            n == shutdownNext(hDirs, i, ok)
        IN /\ hStops' = Append(hStops, hDirs[i])
           /\ hFailed' = (hFailed \/ ~ ok)
           /\ hPc' = IF n > Len(hDirs) THEN "stopped" ELSE "stopping"
    /\ UNCHANGED <<mainVars, cycleVars, hDirs, sigMidTrial, exitVars, probeVars, loadVars>>

\* A handler that calls os.Exit only when the WaitGroup of the request
\* goroutines is at zero.
handlerDoneAfterWait(pc, n) ==
    /\ wg = 0
    /\ (pc = "stopped" \/ (pc = "stopping" /\ n = 0))

\* The handler is past shutdownAllServices over n directories: nothing else
\* stands between it and os.Exit(0).
handlerDone(pc, n) == pc = "stopped" \/ (pc = "stopping" /\ n = 0)

\* shutdownAllServices returned in the handler: os.Exit(0).
HandlerExit ==
    /\ ~ exited
    /\ handlerDone(hPc, Len(hDirs))
    /\ hPc' = "exited"
    /\ exited' = TRUE
    /\ exitCode' = 0
    /\ exitBy' = "handler"
    /\ UNCHANGED <<mainVars, cycleVars, hDirs, hStops, hFailed, sigMidTrial,
                   probeVars, loadVars>>

\* ------------------------------------------------- the load harness
\* The deferred csvWriter.Flush() and outputFile.Close() of the load harness.
closeCsv(c) ==
    IF c.state = "open" THEN [c EXCEPT !.state = "closed", !.buffered = 0]
    ELSE c

\* Goroutines that all see the last endpoint (a closure over the loop
\* variable instead of the argument s).
serviceOfLast(k, n) == NumServices

\* The endpoint of the k-th goroutine a call with concurrency n starts: the
\* outer loop ranges over the services, the inner one runs n times.
serviceOf(k, n) == ((k - 1) \div n) + 1

\* Number of goroutines of a call: the capacity of its results channel.
batchSize(n, m) == n * m

\* An unbuffered results channel.
chanCapNone(n, m) == 0

\* Capacity of the results channel: make(chan TestResult,
\* concurrency*len(services)).
chanCap(n, m) == n * m

\* How a GET ends: 200, another status, a transport error, the client timeout.
Outcomes == {"ok", "status", "error", "timeout"}

\* A goroutine that sends a result only for a request that succeeded.
sendsResultOnSuccess(o) == o = "ok"

\* Whether the goroutine sends a TestResult for a request that ended in o:
\* the result is built and sent after the if/else on err, on every path.
sendsResult(o) == TRUE

\* A goroutine that takes every response for a success, whatever its status.
successOfAnyStatus(o) == o \in {"ok", "status"}

\* Success of the TestResult: no error and status 200.
successOf(o) == o = "ok"

concurrency == stressLevels[level]

\* One runDockerComposeUp of main's loop returns; its error is not looked at.
UpStep ==
    /\ ~ exited
    /\ mainPc = "upAll"
    /\ dirIdx <= Len(serviceDirs)
    /\ dirIdx' = dirIdx + 1
    /\ issued' = issued \cup {"up"}
    /\ UNCHANGED <<harness, cmdTime, cwd, mainPc, trial, serviceDirs, leader, reports, wrote,
                   ret, cycleVars, handlerVars, exitVars, probeVars, loadVars>>

\* The loop is over: the 10 s sleep.
UpDone ==
    /\ ~ exited
    /\ mainPc = "upAll"
    /\ dirIdx > Len(serviceDirs)
    /\ mainPc' = "sleep"
    /\ UNCHANGED <<harness, cmdTime, cwd, trial, dirIdx, serviceDirs, leader, reports, wrote,
                   issued, ret, cycleVars, handlerVars, exitVars, probeVars,
                   loadVars>>

\* A loop that goes to the last stress level at once.
enterTestServicesLast(l) ==
    /\ level' = Len(stressLevels)
    /\ mainPc' = "spawn"
    /\ spawned' = 0
    /\ wg' = 0
    /\ results' = NoResults
    /\ requests' = 0
    /\ batchRows' = NoResults
    /\ lastFailed' = FALSE
    /\ UNCHANGED <<pending, inflight>>

\* testServices is entered: the WaitGroup and the results channel are made.
enterTestServices(l) ==
    /\ level' = l
    /\ mainPc' = "spawn"
    /\ spawned' = 0
    /\ wg' = 0
    /\ results' = NoResults
    /\ requests' = 0
    /\ batchRows' = NoResults
    /\ lastFailed' = FALSE
    /\ UNCHANGED <<pending, inflight>>

\* The sleep is over: os.Create of test_results.csv; on failure main
\* returns, otherwise the header is written and the first batch starts.
SleepEnds ==
    /\ ~ exited
    /\ mainPc = "sleep"
    /\ \/ /\ mainReturn
          /\ csv' = csv
          /\ UNCHANGED <<level, spawned, pending, inflight, wg, results,
                         requests, batchRows, lastFailed>>
       \/ /\ csv' = [state |-> "open", rows |-> 0, buffered |-> 1]
          /\ enterTestServices(1)
          /\ UNCHANGED <<reports, exitVars>>
    /\ UNCHANGED <<harness, cmdTime, cwd, trial, dirIdx, serviceDirs, leader, wrote, issued,
                   ret, cycleVars, handlerVars, probeVars>>

\* One pass of the inner loop: wg.Add(1) and the go statement.  After the
\* last one main blocks in wg.Wait().
LoadSpawn ==
    /\ ~ exited
    /\ mainPc = "spawn"
    /\ spawned < batchSize(concurrency, NumServices)
    /\ LET s == serviceOf(spawned + 1, concurrency)
       IN pending' = [pending EXCEPT ![s] = @ + 1]
    /\ spawned' = spawned + 1
    /\ wg' = wg + 1
    /\ mainPc' = IF spawned + 1 = batchSize(concurrency, NumServices)
                 THEN "wait" ELSE "spawn"
    /\ UNCHANGED <<harness, cmdTime, cwd, trial, dirIdx, serviceDirs, leader, reports, wrote,
                   issued, ret, cycleVars, handlerVars, exitVars, probeVars,
                   level, inflight, results, requests, batchRows, lastFailed,
                   csv>>

\* A goroutine takes its start time and sends its GET.
GoRequest ==
    /\ ~ exited
    /\ mainPc \in {"spawn", "wait"}
    /\ \E s \in Services :
        /\ pending[s] > 0
        /\ pending' = [pending EXCEPT ![s] = @ - 1]
        /\ inflight' = [inflight EXCEPT ![s] = @ + 1]
    /\ requests' = requests + 1
    /\ UNCHANGED <<mainVars, cycleVars, handlerVars, exitVars, probeVars,
                   level, spawned, wg, results, batchRows, lastFailed, csv>>

\* client.Get returns in a goroutine: the TestResult is sent on the results
\* channel (which has room for it) and the deferred wg.Done() runs.
GoComplete ==
    /\ ~ exited
    /\ mainPc \in {"spawn", "wait"}
    /\ count(results) < chanCap(concurrency, NumServices)
    /\ \E s \in Services, o \in Outcomes :
        /\ inflight[s] > 0
        /\ inflight' = [inflight EXCEPT ![s] = @ - 1]
        /\ lastFailed' = (o # "ok")
        /\ LET r == [name |-> s, success |-> successOf(o),
                     group |-> concurrency]
           IN results' = IF sendsResult(o)
                         THEN [results EXCEPT ![r] = @ + 1]
                         ELSE results
    /\ wg' = wg - 1
    /\ UNCHANGED <<mainVars, cycleVars, handlerVars, exitVars, probeVars,
                   level, spawned, pending, requests, batchRows, csv>>

\* A call that does not wait for its goroutines.
waitReturnsAtOnce(w) == TRUE

\* wg.Wait() returns when the counter of the WaitGroup is zero.
waitReturns(w) == w = 0

\* A testServices that leaves its rows in the csv.Writer.
writeNoFlush(c, n) == [c EXCEPT !.buffered = @ + n]

\* n calls of csvWriter.Write and the csvWriter.Flush() that ends
\* testServices: the header, if it was still in the writer, and the n rows
\* are in the file.
writeAndFlush(c, n) == [c EXCEPT !.rows = @ + n, !.buffered = 0]

\* wg.Wait() returns: the channel is closed and drained, one row is written
\* per result, and csvWriter.Flush() puts the rows into the file.
WaitReturns ==
    /\ ~ exited
    /\ mainPc = "wait"
    /\ waitReturns(wg)
    /\ csv' = writeAndFlush(csv, count(results))
    /\ batchRows' = results
    /\ results' = NoResults
    /\ mainPc' = "tested"
    /\ UNCHANGED <<harness, cmdTime, cwd, trial, dirIdx, serviceDirs, leader, reports, wrote,
                   issued, ret, cycleVars, handlerVars, exitVars, probeVars,
                   level, spawned, pending, inflight, wg, requests,
                   lastFailed>>

\* testServices has returned: the next stress level, or after the last one
\* the loop of runDockerComposeDown.
NextLevel ==
    /\ ~ exited
    /\ mainPc = "tested"
    /\ IF level < Len(stressLevels)
       THEN /\ enterTestServices(level + 1)
            /\ UNCHANGED dirIdx
       ELSE /\ mainPc' = "downAll"
            /\ dirIdx' = 1
            /\ UNCHANGED <<level, spawned, pending, inflight, wg, results,
                           requests, batchRows, lastFailed>>
    /\ UNCHANGED <<harness, cmdTime, cwd, trial, serviceDirs, leader, reports, wrote, issued,
                   ret, cycleVars, handlerVars, exitVars, probeVars, csv>>

\* One runDockerComposeDown of main's last loop returns.
DownStep ==
    /\ ~ exited
    /\ mainPc = "downAll"
    /\ dirIdx <= Len(serviceDirs)
    /\ dirIdx' = dirIdx + 1
    /\ issued' = issued \cup {"down"}
    /\ UNCHANGED <<harness, cmdTime, cwd, mainPc, trial, serviceDirs, leader, reports, wrote,
                   ret, cycleVars, handlerVars, exitVars, probeVars, loadVars>>

\* The loop is over: main returns and the deferred Flush and Close run.
DownDone ==
    /\ ~ exited
    /\ mainPc = "downAll"
    /\ dirIdx > Len(serviceDirs)
    /\ mainReturn
    /\ csv' = closeCsv(csv)
    /\ UNCHANGED <<harness, cmdTime, cwd, trial, dirIdx, serviceDirs, leader, wrote, issued,
                   ret, cycleVars, handlerVars, probeVars, level, spawned,
                   pending, inflight, wg, results, requests, batchRows,
                   lastFailed>>

\* --------------------------------------------------------- specification
Next ==
    \/ Preflight
    \/ ResolveAppend
    \/ ResolveError
    \/ ResolveDone
    \/ TrialOpen
    \/ MeasureBegin
    \/ Cmd1Returns
    \/ Cmd2Returns
    \/ ClockAdvance
    \/ SelectTimeout
    \/ SelectTick
    \/ ConsulProbeReturns
    \/ HealthProbeReturns
    \/ MeasureReturned
    \/ ShutdownBegin
    \/ ShutdownStep
    \/ ShutdownDone
    \/ CooldownEnds
    \/ Signal
    \/ HandlerStop
    \/ HandlerExit

Spec == Init /\ [][Next]_vars

\* The main goroutine alone (no signal arrives), with the scheduling the
\* runtime gives the polling loop: time passes, a probe that was sent comes
\* back, a select with one ready channel takes it, and a select with both
\* channels ready, which picks one uniformly at random, does not pick the
\* tick for ever.
NextMain ==
    \/ Preflight
    \/ ResolveAppend
    \/ ResolveError
    \/ ResolveDone
    \/ TrialOpen
    \/ MeasureBegin
    \/ Cmd1Returns
    \/ Cmd2Returns
    \/ ClockAdvance
    \/ SelectTimeout
    \/ SelectTick
    \/ ConsulProbeReturns
    \/ HealthProbeReturns
    \/ MeasureReturned
    \/ ShutdownBegin
    \/ ShutdownStep
    \/ ShutdownDone
    \/ CooldownEnds

CycleFairness ==
    /\ WF_vars(ClockAdvance)
    /\ WF_vars(ConsulProbeReturns)
    /\ WF_vars(HealthProbeReturns)
    /\ WF_vars(SelectTick)
    /\ SF_vars(SelectTimeout)

FairSpec == Init /\ [][NextMain]_vars /\ CycleFairness

\* The load harness: main, its request goroutines and the handler.
InitLoad ==
    /\ harness = "latency"
    /\ InitCommon
    /\ cmdTime = 0
    /\ svc = IdleService
    /\ tree = <<>>
    /\ probeResp = IdleProbe
    /\ probeResult = "none"

NextLoad ==
    \/ Preflight
    \/ ResolveAppend
    \/ ResolveError
    \/ ResolveDone
    \/ UpStep
    \/ UpDone
    \/ SleepEnds
    \/ LoadSpawn
    \/ GoRequest
    \/ GoComplete
    \/ WaitReturns
    \/ NextLevel
    \/ DownStep
    \/ DownDone
    \/ Signal
    \/ HandlerStop
    \/ HandlerExit

LoadSpec == InitLoad /\ [][NextLoad]_vars

\* The main flows of the three harnesses side by side, no signal arriving:
\* main and the deferred calls that run at its return are the only code that
\* flushes or closes a file.
InitAll == Init \/ InitLoad

NextAll ==
    \/ NextMain
    \/ UpStep
    \/ UpDone
    \/ SleepEnds
    \/ LoadSpawn
    \/ GoRequest
    \/ GoComplete
    \/ WaitReturns
    \/ NextLevel
    \/ DownStep
    \/ DownDone

AllSpec == InitAll /\ [][NextAll]_vars

\* ------------------------------------------------ the registry probe alone
\* isConsulServiceHealthy is called on one answer of the registry.
ConsulProbeCall ==
    /\ probeResult = "none"
    /\ probeResult' = IF isConsulServiceHealthy(probeResp) THEN "true"
                      ELSE "false"
    /\ probeFn' = "consul"
    /\ UNCHANGED <<mainVars, cycleVars, handlerVars, exitVars, probeResp,
                   tree, listing, start, latency, services, loadVars,
                   svc>>

\* isServiceHealthy is called on one answer of a health endpoint.
HealthProbeCall ==
    /\ probeResult = "none"
    /\ probeResult' = IF isServiceHealthy(probeResp) THEN "true" ELSE "false"
    /\ probeFn' = "health"
    /\ UNCHANGED <<mainVars, cycleVars, handlerVars, exitVars, probeResp,
                   tree, listing, start, latency, services, loadVars,
                   svc>>

InitProbe ==
    /\ harness \in {"failure", "startup"}
    /\ InitCommon
    /\ cmdTime = 0
    /\ svc = IdleService
    /\ tree = <<>>
    /\ probeResp \in ConsulResponses
    /\ probeResult = "none"

NextProbe == ConsulProbeCall \/ HealthProbeCall

ProbeSpec == InitProbe /\ [][NextProbe]_vars

\* ------------------------------------------------ one CRUD service alone
\* The weather, the parking and the traffic service.
ServiceKinds == {"weather", "parking", "traffic"}

Ports == 1 .. MaxPorts

\* findAvailablePort: the first port of the range net.Listen can bind, 0 for
\* the error when every port is taken.
findAvailablePort(occupied) ==
    IF Ports \subseteq occupied THEN 0
    ELSE CHOOSE p \in Ports \ occupied : \A q \in Ports \ occupied : p <= q

\* How deregisterWithConsul can go: the entry is removed, NewClient fails,
\* or ServiceDeregister fails.
DeregisterOutcomes == {"ok", "client", "call"}

\* Whether deregisterWithConsul ends the process with log.Fatalf: the parking
\* service does when NewClient fails, the others print and return.
deregisterFatal(kind, o) == kind = "parking" /\ o = "client"

svcRest ==
    <<mainVars, cycleVars, handlerVars, exitVars, probeResp, probeResult,
      probeFn, tree, listing, start, latency, services, loadVars>>

\* SIGINT or SIGTERM before signal.Notify: the default action ends the
\* process.
SvcKilled ==
    /\ svc.pc \in {"bind", "notify"}
    /\ svc' = [svc EXCEPT !.pc = "exited", !.exitHow = "killed"]
    /\ UNCHANGED svcRest

\* findAvailablePort: the listener is bound, or log.Fatalf.
SvcBind ==
    /\ svc.pc = "bind"
    /\ LET p == findAvailablePort(svc.occupied)
       IN svc' = IF p = 0
                 THEN [svc EXCEPT !.pc = "exited", !.exitHow = "fatal"]
                 ELSE [svc EXCEPT !.pc = "notify", !.port = p]
    /\ UNCHANGED svcRest

\* signal.Notify(stop, ...) and the goroutine of server.Serve(listener).
SvcNotify ==
    /\ svc.pc = "notify"
    /\ svc' = [svc EXCEPT !.pc = "register", !.serving = TRUE]
    /\ UNCHANGED svcRest

\* SIGINT or SIGTERM after signal.Notify: it waits in the channel stop,
\* which has room for one.
SvcSignal ==
    /\ svc.pc \in {"register", "waiting"}
    /\ ~ svc.sig
    /\ svc' = [svc EXCEPT !.sig = TRUE]
    /\ UNCHANGED svcRest

\* registerWithConsul: the entry is made and its removal deferred, or
\* log.Fatalf.
SvcRegister ==
    /\ svc.pc = "register"
    /\ \E ok \in BOOLEAN :
        svc' = IF ok
               THEN [svc EXCEPT !.pc = "waiting", !.registered = TRUE]
               ELSE [svc EXCEPT !.pc = "exited", !.exitHow = "fatal"]
    /\ UNCHANGED svcRest

\* server.Serve returns an error other than ErrServerClosed in its
\* goroutine: log.Fatalf, no deferred call runs.
SvcServeFails ==
    /\ svc.pc \in {"register", "waiting"}
    /\ svc.serving
    /\ svc' = [svc EXCEPT !.pc = "exited", !.exitHow = "fatal",
                          !.serving = FALSE]
    /\ UNCHANGED svcRest

\* <-stop has a signal: server.Shutdown(ctx).
SvcShutdown ==
    /\ svc.pc = "waiting"
    /\ svc.sig
    /\ svc' = [svc EXCEPT !.pc = "deregister", !.serving = FALSE]
    /\ UNCHANGED svcRest

\* main returns: the deferred deregisterWithConsul(serviceID) runs, then
\* the process ends.
SvcDeregister ==
    /\ svc.pc = "deregister"
    /\ \E o \in DeregisterOutcomes :
        svc' = [svc EXCEPT
                  !.pc = "exited",
                  !.registered = IF o = "ok" THEN FALSE ELSE @,
                  !.exitHow = IF deregisterFatal(svc.kind, o) THEN "fatal"
                              ELSE "graceful"]
    /\ UNCHANGED svcRest

InitService ==
    /\ harness = "failure"
    /\ InitCommon
    /\ cmdTime = 0
    /\ tree = <<>>
    /\ probeResp = IdleProbe
    /\ probeResult = "none"
    /\ \E k \in ServiceKinds, occ \in SUBSET Ports :
         svc = [IdleService EXCEPT !.kind = k, !.occupied = occ, !.pc = "bind"]

NextService ==
    \/ SvcKilled
    \/ SvcBind
    \/ SvcNotify
    \/ SvcSignal
    \/ SvcRegister
    \/ SvcServeFails
    \/ SvcShutdown
    \/ SvcDeregister

ServiceSpec == InitService /\ [][NextService]_vars

\* ------------------------------------------------ the timing alone
\* The startup harness without a signal, its start command taking any time
\* up to MaxCmdTicks.
InitTiming ==
    /\ harness = "startup"
    /\ InitCommon
    /\ cmdTime \in 0 .. MaxCmdTicks
    /\ svc = IdleService
    /\ tree = <<>>
    /\ probeResp = IdleProbe
    /\ probeResult = "none"

TimingSpec == InitTiming /\ [][NextMain]_vars

\* ------------------------------------------------ calls that may not return
\* Seconds: the ticker period of the polling loop and the Timeout fields of
\* the http.Client values the programs build.
TickSeconds == 1
HealthTimeoutFailure == 1
HealthTimeoutStartup == 5
LoadTimeout == 10

\* Timeout of the client isServiceHealthy builds.
healthTimeout(h) ==
    IF h = "failure" THEN HealthTimeoutFailure ELSE HealthTimeoutStartup

\* The blocking call main is inside at pc, dirIdx = idx of n directories.
callOf(pc, idx, n) ==
    IF pc = "preflight" THEN "preflight"
    ELSE IF pc \in {"cmd1", "cmd2", "scale"} THEN "command"
    ELSE IF pc \in {"shutdown", "upAll", "downAll"} /\ idx <= n THEN "command"
    ELSE IF pc = "consul" THEN "consul"
    ELSE IF pc = "health" THEN "health"
    ELSE "none"

\* The time limit the code puts on a call, in seconds; 0 stands for none, as
\* in http.Client.Timeout: http.Get uses http.DefaultClient, whose Timeout is
\* zero, and exec.Command(...).Run() waits for the process to exit.
callTimeout(h, call) ==
    IF call = "health" THEN healthTimeout(h)
    ELSE IF call = "load" THEN LoadTimeout
    ELSE 0

\* The collaborator of the call main is inside never answers: a call with a
\* time limit returns an error (one of the answers of the ...Returns
\* actions), a call without one does not return.
CallNeverReturns ==
    /\ ~ exited
    /\ callOf(mainPc, dirIdx, Len(serviceDirs)) # "none"
    /\ callTimeout(harness, callOf(mainPc, dirIdx, Len(serviceDirs))) = 0
    /\ mainPc' = "blocked"
    /\ UNCHANGED <<harness, cmdTime, cwd, trial, dirIdx, serviceDirs, leader, reports, wrote,
                   issued, ret, cycleVars, handlerVars, exitVars, probeVars,
                   loadVars>>

NextHang == NextAll \/ CallNeverReturns

\* The three main flows with collaborators that may stop answering.
HangSpec == InitAll /\ [][NextHang]_vars

\* ------------------------------------------------ one load request alone
\* A server answers a GET after some seconds, or never.
MaxDelay == LoadTimeout + 1

\* What one request goroutine meets: the server's answer, the time the
\* goroutine waits before it takes its start time, and the time it waits
\* between the return of client.Get and its time.Since.
RequestRuns ==
    [answers : BOOLEAN, after : 0 .. MaxDelay, wait : 0 .. MaxSlack,
     slack : 0 .. MaxSlack]

\* A client without a Timeout: Get returns when the server answers.
getReturnsAfterAnswer(r) == r.after

\* Seconds until client.Get returns: with the answer, or with the error of
\* the client's Timeout when no answer came before it.
getReturnsAfter(r) ==
    IF r.answers /\ r.after < LoadTimeout THEN r.after ELSE LoadTimeout

\* start := time.Now() in the goroutine.
RequestStart ==
    /\ probeFn = "none"
    /\ now' = now + probeResp.wait
    /\ start' = now'
    /\ probeFn' = "sent"
    /\ UNCHANGED <<mainVars, timerFired, tickPending, consulReady,
                   serviceHealthy, consulTime, healthTime, handlerVars,
                   exitVars, probeResp, probeResult, tree, listing, latency,
                   services, loadVars,
                   svc>>

\* client.Get(s.URL) returns and latency := time.Since(start) is taken.
RequestReturns ==
    /\ probeFn = "sent"
    /\ now' = now + getReturnsAfter(probeResp) + probeResp.slack
    /\ latency' = now' - start
    /\ probeFn' = "request"
    /\ UNCHANGED <<mainVars, timerFired, tickPending, consulReady,
                   serviceHealthy, consulTime, healthTime, handlerVars,
                   exitVars, probeResp, probeResult, tree, listing, start,
                   services, loadVars,
                   svc>>

InitRequest ==
    /\ harness = "latency"
    /\ InitCommon
    /\ cmdTime = 0
    /\ svc = IdleService
    /\ tree = <<>>
    /\ probeResult = "none"
    /\ probeResp \in RequestRuns

NextRequest == RequestStart \/ RequestReturns

RequestSpec == InitRequest /\ [][NextRequest]_vars

\* ------------------------------------------------ the identity alone
\* Characters of directory names: a lower-case letter, an upper-case letter
\* and one that is not a letter.
Chars == {"a", "B", "-"}
UpperChars == {"A", "B"}

\* Directory names, and paths as the sequence of their elements.
DirNames == UNION {[1 .. n -> Chars] : n \in 1 .. MaxNameLen}
DirPaths == UNION {[1 .. d -> DirNames] : d \in 1 .. MaxDepth}

\* filepath.Base: the last element of a path.
Base(path) == path[Len(path)]

lowerOf(c) == IF c = "A" THEN "a" ELSE IF c = "B" THEN "b" ELSE c

\* A name taken as it is.
ToLowerNot(name) == name

\* strings.ToLower.
ToLower(name) == [i \in 1 .. Len(name) |-> lowerOf(name[i])]

\* fmt.Sprintf("http://%s.localhost/health", serviceName).
healthURL(name) == <<"http://">> \o name \o <<".localhost/health">>

\* The Service value main builds for a directory.
makeService(dir) ==
    LET serviceName == ToLower(Base(dir))
    IN [Name |-> serviceName, HealthURL |-> healthURL(serviceName),
        ConsulKey |-> serviceName, DockerName |-> serviceName]

\* One pass of the service loop over the directory, in the next trial.
MakeService ==
    /\ probeFn \in {"none", "identity"}
    /\ Len(services) < NumTrials
    /\ services' = Append(services, makeService(probeResp))
    /\ probeFn' = "identity"
    /\ UNCHANGED <<mainVars, cycleVars, handlerVars, exitVars, probeResp,
                   probeResult, tree, listing, start, latency, loadVars,
                   svc>>

InitIdentity ==
    /\ harness \in {"failure", "startup"}
    /\ InitCommon
    /\ cmdTime = 0
    /\ svc = IdleService
    /\ tree = <<>>
    /\ probeResult = "none"
    /\ probeResp \in DirPaths

NextIdentity == MakeService

IdentitySpec == InitIdentity /\ [][NextIdentity]_vars

\* ------------------------------------------------ the resolver alone
\* Filesystem snapshots below the services root: entry n is a directory or
\* a regular file and lies in entry parent, or in the root for parent 0.
\* Entries of one directory are numbered in the lexical order of their
\* names, in which filepath.Walk and os.ReadDir visit them.
FileTrees ==
    UNION { { t \in [1 .. k -> [parent : 0 .. MaxNodes, kind : {"dir", "file"}]] :
                \A n \in 1 .. k :
                    /\ t[n].parent < n
                    /\ t[n].parent > 0 => t[t[n].parent].kind = "dir" } :
            k \in 0 .. MaxNodes }

\* The entries of directory p (0: the root), in lexical order.
RECURSIVE entriesFrom(_, _, _)
entriesFrom(t, p, n) ==
    IF n > Len(t) THEN <<>>
    ELSE (IF t[n].parent = p THEN <<n>> ELSE <<>>) \o entriesFrom(t, p, n + 1)

\* filepath.Walk from the entries in todo on: the callback appends a
\* directory (the root itself is never in todo: path != root), then Walk
\* descends into it before it goes on with the next entry.
RECURSIVE walkFrom(_, _)
walkFrom(t, todo) ==
    IF todo = <<>> THEN <<>>
    ELSE LET n == Head(todo)
         IN IF t[n].kind = "dir"
            THEN <<n>> \o walkFrom(t, entriesFrom(t, n, 1) \o Tail(todo))
            ELSE walkFrom(t, Tail(todo))

\* getSubdirectories of the readiness harnesses and of the first load
\* program: serviceDirs after a walk that met no error.
getSubdirectories(t) == walkFrom(t, entriesFrom(t, 0, 1))

\* getSubdirectories of the second load program: os.ReadDir(root) and the
\* entries of it that are directories.
getSubdirectoriesReadDir(t) ==
    SelectSeq(entriesFrom(t, 0, 1), LAMBDA n : t[n].kind = "dir")

WalkCall ==
    /\ probeFn = "none"
    /\ listing' = getSubdirectories(tree)
    /\ probeFn' = "walk"
    /\ UNCHANGED <<mainVars, cycleVars, handlerVars, exitVars, probeResp,
                   probeResult, tree, start, latency, services,
                   loadVars,
                   svc>>

ReadDirCall ==
    /\ harness = "latency"
    /\ probeFn = "none"
    /\ listing' = getSubdirectoriesReadDir(tree)
    /\ probeFn' = "readdir"
    /\ UNCHANGED <<mainVars, cycleVars, handlerVars, exitVars, probeResp,
                   probeResult, tree, start, latency, services,
                   loadVars,
                   svc>>

InitResolve ==
    /\ harness \in {"failure", "startup", "latency"}
    /\ InitCommon
    /\ cmdTime = 0
    /\ svc = IdleService
    /\ probeResp = IdleProbe
    /\ probeResult = "none"
    /\ tree \in FileTrees

NextResolve == WalkCall \/ ReadDirCall

ResolveSpec == InitResolve /\ [][NextResolve]_vars

\* =================================================================
\* Properties
\* =================================================================

\* The lifecycle command main has in flight at program point pc.
mainCmd(h, pc) ==
    IF pc = "cmd1" THEN firstCmd(h)
    ELSE IF pc = "cmd2" THEN secondCmd(h)
    ELSE IF pc = "shutdown" THEN "down"
    ELSE "none"

BatchYieldsNTimesM ==
    /\ mainPc \in {"spawn", "wait", "tested"} =>
         /\ requests <= batchSize(concurrency, NumServices)
         /\ requests <= spawned
    /\ mainPc = "tested" =>
         /\ requests = concurrency * NumServices
         /\ count(batchRows) = concurrency * NumServices

\* C2 witness: the call at the highest stress level has returned and its
\* rows hold a failed and a successful request.
MixedBatchReturned ==
    /\ mainPc = "tested"
    /\ stressLevels[level] = MaxStress
    /\ \E k \in ResultKinds : ~ k.success /\ batchRows[k] > 0
    /\ \E k \in ResultKinds : k.success /\ batchRows[k] > 0
    /\ csv.rows = batchSize(1, NumServices) + batchSize(MaxStress, NumServices)

\* C3: when the handler ends the process it has run docker-compose down
\* once in every directory of the list it was given, in order, whether or
\* not one of them failed, and the exit code is 0; for a signal that arrived
\* inside a trial that list is the complete resolved list.
HandlerStopsAllThenExits ==
    exitBy = "handler" =>
        /\ exitCode = 0
        /\ hStops = hDirs
        /\ sigMidTrial => (hDirs = serviceDirs /\ Len(hDirs) = NumDirs)

\* C3 witness: the process was ended by the handler after a signal inside a
\* trial, one stop having failed and every directory having been stopped.
HandlerExitAfterFailedStop ==
    /\ exitBy = "handler"
    /\ sigMidTrial
    /\ hFailed
    /\ Len(hStops) = NumDirs

\* C4 (as claimed): once the signal has been received main begins no further
\* trial, starts no start or scaled-restart command and opens no report,
\* also while the handler's teardown runs (a docker-compose down of the
\* handler is in flight).
MainStopsAfterSignal ==
    [][(hPc = "stopping" /\ sigMidTrial /\ Len(hStops) < Len(hDirs)) =>
         /\ trial' = trial
         /\ (mainPc' # mainPc => mainCmd(harness, mainPc') \notin {"up", "scale"})
         /\ \A t \in Trials : reports'[t].state = "none" <=> reports[t].state = "none"]_vars

\* C5: a failed pre-flight request (error or a status other than 200) ends
\* the process with a non-zero code with no directory resolved, no
\* lifecycle command run and no report created.
PreflightFailureIsFatal ==
    (leader # NoAnswer /\ (leader.err \/ leader.code # 200)) =>
        /\ exited
        /\ exitCode # 0
        /\ serviceDirs = <<>>
        /\ issued = {}
        /\ hStops = <<>>
        /\ \A t \in Trials : reports[t].state = "none"
        /\ csv.state = "none"

\* C5 witness: the registry answered the pre-flight request with 503 and
\* the process has ended.
PreflightNon200Exit ==
    /\ leader.code = 503
    /\ exited
    /\ exitBy = "fatal"

\* C6: when measureDetailedStartupTime comes back with an error the trial's
\* report gets no row, when it comes back without one the report gets
\* exactly one row, for that service and with non-zero times; either way
\* main goes on with the next service of the same trial.  A timed-out cycle
\* comes back with an error and zero values.
TimedOutServiceGetsNoRow ==
    /\ [][(mainPc = "returned" /\ mainPc' # "returned") =>
            /\ mainPc' = "service"
            /\ dirIdx' = dirIdx + 1
            /\ trial' = trial
            /\ ret.err # "nil" =>
                 (reports' = reports /\ wrote' = <<>>)
            /\ ret.err = "nil" =>
                 /\ reports' = [reports EXCEPT ![trial].rows = @ + 1]
                 /\ wrote' = dataRow(harness, serviceDirs[dirIdx], ret)
                 /\ ret.consul > 0
                 /\ ret.health > 0]_vars
    /\ [][(mainPc = "select" /\ mainPc' = "returned") =>
            (ret'.err = "timeout" /\ ret'.consul = 0 /\ ret'.health = 0)]_vars
    /\ [][(mainPc # "returned") => reports' = reports \/ exited' \/ mainPc = "trial"]_vars

\* C6 witness: in one trial the first service got no row and the second one
\* was measured and got its row.
SecondServiceMeasured ==
    /\ mainPc = "service"
    /\ dirIdx = 3
    /\ reports[trial].rows = 1
    /\ wrote # <<>>
    /\ wrote[1] = 2

\* C7 (as claimed): a cycle that returns both-ready recorded both ready
\* times within the timeout window, and once the timer has fired no further
\* tick is processed.
ReadyOnlyWithinWindow ==
    /\ [](mainPc = "returned" /\ ret.err = "nil" =>
            ret.consul <= TimeoutTicks /\ ret.health <= TimeoutTicks)
    /\ [][(mainPc = "select" /\ timerFired) => mainPc' \notin {"consul", "health"}]_vars

\* C8: inside a cycle a flag that is set stays set and is not probed again,
\* its ready time is written when the flag is set, by the probe of that
\* tick, and never afterwards; the two flags are set independently.
FlagsMonotone ==
    /\ [](mainPc = "consul" => ~ consulReady)
    /\ [](mainPc = "health" => ~ serviceHealthy)
    /\ [][(mainPc \in CyclePcs) =>
            /\ consulReady => (consulReady' /\ consulTime' = consulTime)
            /\ serviceHealthy => (serviceHealthy' /\ healthTime' = healthTime)
            /\ (~ consulReady /\ consulReady') =>
                 (mainPc = "consul" /\ consulTime' = now /\ serviceHealthy' = serviceHealthy)
            /\ (~ serviceHealthy /\ serviceHealthy') =>
                 (mainPc = "health" /\ healthTime' = now /\ consulReady' = consulReady)
            /\ ~ consulReady' => consulTime' = 0
            /\ ~ serviceHealthy' => healthTime' = 0]_vars

\* C8 witness: the health flag was set first, and a later tick probes the
\* registry alone.
HealthFirst ==
    /\ mainPc = "consul"
    /\ serviceHealthy
    /\ ~ consulReady
    /\ healthTime < now

\* C9: the cycle never waits in select with both flags set: the step that
\* sets the second flag returns, with a nil error and the two recorded
\* ready times.
ReturnsInSameTick ==
    /\ [](mainPc \in CyclePcs => ~ (consulReady /\ serviceHealthy))
    /\ [][(mainPc \in CyclePcs /\ consulReady' /\ serviceHealthy') =>
            /\ mainPc' = "returned"
            /\ ret'.err = "nil"
            /\ ret'.consul = consulTime'
            /\ ret'.health = healthTime']_vars
    /\ [](mainPc = "returned" /\ ret.err = "nil" =>
            /\ consulReady /\ serviceHealthy
            /\ ret.consul = consulTime /\ ret.health = healthTime
            /\ ret.consul > 0 /\ ret.health > 0)

\* C9 witness: a cycle has returned both-ready with the two signals having
\* passed at different ticks.
BothReadyReturned ==
    /\ mainPc = "returned"
    /\ ret.err = "nil"
    /\ ret.consul < ret.health

\* C10: isConsulServiceHealthy is true exactly for a 200 answer with a
\* well-formed, non-empty list whose every entry has the string "passing"
\* as Status; every other answer gives false.
HealthyIffAllPassing ==
    probeFn = "consul" =>
        (probeResult = "true" <=>
            /\ ~ probeResp.err
            /\ probeResp.code = 200
            /\ probeResp.body.kind = "list"
            /\ Len(probeResp.body.checks) > 0
            /\ \A i \in 1 .. Len(probeResp.body.checks) :
                 probeResp.body.checks[i] = Passing)

\* C10 witness: the probe answered true for a list of MaxChecks entries.
ProbeTrueOnFullList ==
    /\ probeFn = "consul"
    /\ probeResult = "true"
    /\ Len(probeResp.body.checks) = MaxChecks

\* C11 (as claimed): isServiceHealthy is true exactly when the status of the
\* response is 200.
HealthyIffStatus200 ==
    probeFn = "health" =>
        (probeResult = "true" <=> (~ probeResp.err /\ probeResp.code = 200))

\* C11 (amended): isServiceHealthy is true exactly when the request came
\* back without an error, its body was read to the end and the status is
\* 200; an error, a timeout, a body that cannot be read or another status
\* gives false.
HealthyIffRead200 ==
    probeFn = "health" =>
        (probeResult = "true" <=>
            /\ ~ probeResp.err
            /\ probeResp.body.kind # "unreadable"
            /\ probeResp.code = 200)

\* C11 witness: the health probe answered true, for a response with status
\* 200 and a body that was read.
HealthProbeTrue ==
    /\ probeFn = "health"
    /\ probeResult = "true"
    /\ probeResp.code = 200

\* C12: every result of a batch at stress level N carries group N, in the
\* channel and in the rows written, and the rows of the batch hold every
\* endpoint's name exactly N times.
BatchPartitioned ==
    /\ mainPc \in {"spawn", "wait"} =>
         \A k \in ResultKinds : results[k] > 0 => k.group = concurrency
    /\ mainPc = "tested" =>
         /\ \A k \in ResultKinds : batchRows[k] > 0 => k.group = concurrency
         /\ \A s \in Services :
              batchRows[[name |-> s, success |-> TRUE, group |-> concurrency]]
              + batchRows[[name |-> s, success |-> FALSE, group |-> concurrency]]
              = concurrency

\* C12 witness: the batch at the highest level has returned, and one
\* endpoint has a successful and a failed row in it.
BatchWithMixedEndpoint ==
    /\ mainPc = "tested"
    /\ concurrency = MaxStress
    /\ \E s \in Services :
         /\ batchRows[[name |-> s, success |-> TRUE, group |-> MaxStress]] > 0
         /\ batchRows[[name |-> s, success |-> FALSE, group |-> MaxStress]] > 0

\* C13: the step in which testServices writes rows and returns is taken
\* only when every goroutine of the call has sent its GET, got its answer
\* and put its result into the channel; it writes all N*M of them, and the
\* file gets rows at no other step.
WritesAfterAllCompleted ==
    [][(csv'.rows # csv.rows \/ (mainPc = "wait" /\ mainPc' = "tested")) =>
         /\ mainPc = "wait" /\ mainPc' = "tested"
         /\ spawned = batchSize(concurrency, NumServices)
         /\ \A s \in Services : pending[s] = 0 /\ inflight[s] = 0
         /\ count(results) = batchSize(concurrency, NumServices)
         /\ csv'.rows = csv.rows + batchSize(concurrency, NumServices)]_vars

\* C13 witness: the first call has returned: no goroutine of it is left and
\* the file holds its rows.
FirstBatchWritten ==
    /\ mainPc = "tested"
    /\ level = 1
    /\ \A s \in Services : pending[s] = 0 /\ inflight[s] = 0
    /\ csv.rows = batchSize(stressLevels[1], NumServices)

\* C14: a GET that failed puts exactly one result into the channel, for
\* its endpoint and with Success false; no request is sent in its place,
\* main stays where it is, and the goroutines of the other endpoints are
\* started and send their requests whatever has failed.
FailureIsOneFalseRow ==
    /\ [][(lastFailed' /\ wg' = wg - 1) =>
            \E s \in Services :
              /\ inflight' = [inflight EXCEPT ![s] = @ - 1]
              /\ results' = [results EXCEPT
                    ![[name |-> s, success |-> FALSE, group |-> concurrency]] = @ + 1]
              /\ pending' = pending
              /\ requests' = requests
              /\ spawned' = spawned
              /\ mainPc' = mainPc
              /\ csv' = csv]_vars
    /\ []((~ exited /\ mainPc = "spawn") => ENABLED LoadSpawn)
    /\ []((~ exited /\ mainPc \in {"spawn", "wait"}
             /\ \E s \in Services : pending[s] > 0) => ENABLED GoRequest)

\* C14 witness: a request to the first endpoint has failed while the
\* goroutines of the last endpoint are not started yet; the batch goes on.
FailedWhileSpawning ==
    /\ mainPc = "spawn"
    /\ lastFailed
    /\ results[[name |-> 1, success |-> FALSE, group |-> concurrency]] > 0
    /\ spawned < batchSize(concurrency, NumServices)

\* C15 (as claimed): when main is in a trial's stop-all step that trial's
\* report is flushed and closed, and at no time is more than one report
\* open.
ReportClosedBeforeStopAll ==
    /\ mainPc = "shutdown" =>
         (reports[trial].state = "closed" /\ reports[trial].flushed)
    /\ Cardinality({t \in Trials : reports[t].state = "open"}) <= 1

\* C16 (as claimed): a report that cannot be created costs its own trial
\* only: when main has returned after having entered the trial loop, it
\* has gone through the trials up to the last one.
UncreatableReportSkipsOneTrial ==
    (exitBy = "main" /\ trial >= 1) => trial = NumTrials

\* C17 (as claimed): a data row of the failure-recovery report has its
\* fields in the order of the header ServiceName, RecoveryTime,
\* FailureDectectionTime: the name, the time until the health endpoint first
\* passed, the time until the registry first reported passing.
FailureRowInHeaderOrder ==
    [][(harness = "failure" /\ mainPc = "returned" /\ wrote' # <<>>) =>
         wrote' = <<serviceDirs[dirIdx], ret.health, ret.consul>>]_vars

\* C18: a report that is closed has been flushed, in each of the three
\* harnesses, and when main has returned from a run in which every report
\* was created, every report is closed and holds all that was written.
FlushedBeforeClose ==
    /\ \A t \in Trials : reports[t].state = "closed" => reports[t].flushed
    /\ csv.state = "closed" => csv.buffered = 0
    /\ (exitBy = "main" /\ \A t \in Trials : reports[t].state # "none") =>
         \A t \in Trials : reports[t].state = "closed" /\ reports[t].flushed
    /\ (exitBy = "main" /\ csv.state # "none") =>
         (csv.state = "closed" /\ csv.buffered = 0)

\* C18 witness: main has returned after the last trial; every report is
\* closed and the last one holds a row.
AllReportsSealed ==
    /\ exitBy = "main"
    /\ \A t \in Trials : reports[t].state = "closed"
    /\ reports[NumTrials].rows > 0

\* C19 (as claimed): read back after its trial (main is in the stop-all
\* step or in the cooldown that follows), a report yields one record for
\* every row written during the trial.
ReportReadBackAfterTrial ==
    mainPc \in {"shutdown", "cooldown"} =>
        fileRows(reports[trial]) = reports[trial].rows

\* C20 (as claimed): the trials run in increasing order, one after the
\* other, K of them; the service loop of a trial is followed by the stop-all
\* step whatever the measurements returned, the stop-all step goes through
\* every directory, a cooldown follows it in every trial but the last, and
\* main returns from the trial loop only after the stop-all step of trial K.
RunsKTrialsInOrder ==
    /\ [](trial <= NumTrials)
    /\ [][trial' # trial =>
            /\ trial' = trial + 1
            /\ trial >= 1 => mainPc = "cooldown"]_vars
    /\ [][(mainPc = "service" /\ mainPc' \notin {"service", "cmd1", "returned"}) =>
            (mainPc' = "shutdown" /\ dirIdx' = 1)]_vars
    /\ [][(mainPc = "shutdown" /\ dirIdx' # dirIdx) =>
            (dirIdx' = dirIdx + 1 /\ "down" \in issued')]_vars
    /\ [][(mainPc = "shutdown" /\ mainPc' # "shutdown") =>
            /\ dirIdx = Len(serviceDirs) + 1
            /\ mainPc' = IF trial < NumTrials THEN "cooldown" ELSE "exited"]_vars
    /\ [][(mainPc' = "cooldown" /\ mainPc # "cooldown") => mainPc = "shutdown"]_vars
    /\ [][(trial >= 1 /\ exitBy' = "main" /\ exitBy # "main") =>
            (trial = NumTrials /\ mainPc = "shutdown")]_vars

\* C21: in the startup harness the pre-start docker-compose down, which
\* from the second trial on follows the stop-all of the trial before, is
\* followed by the start command whatever it returned: it returns no error
\* and skips no measurement; and the stop-all loop goes on to the next
\* directory whatever a docker-compose down returned.
SecondStopChangesNothing ==
    /\ [][(harness = "startup" /\ mainPc = "cmd1" /\ mainPc' # "cmd1") =>
            /\ mainPc' = "cmd2"
            /\ "up" \in issued'
            /\ ret' = ret
            /\ dirIdx' = dirIdx
            /\ trial' = trial]_vars
    /\ [][(mainPc = "shutdown" /\ dirIdx <= Len(serviceDirs) /\ mainPc' # mainPc) =>
            FALSE]_vars
    /\ [][(mainPc = "shutdown" /\ dirIdx' # dirIdx) =>
            (dirIdx' = dirIdx + 1 /\ ret' = ret /\ trial' = trial)]_vars

\* C21 witness: in the second trial of the startup harness the start command
\* of the first service runs: its directory was stopped by the stop-all of
\* trial 1 and then again by the pre-start stop.
StartAfterTwoStops ==
    /\ harness = "startup"
    /\ trial = 2
    /\ mainPc = "cmd2"
    /\ dirIdx = 1

\* C22: a failed os.Chdir, start or scaled restart makes the measurement
\* return its error and nothing else: main does not end, writes no row for
\* that service and goes on with the next service of the same trial; a
\* failed stop of the stop-all loop is followed by the next directory, and
\* the loop by the cooldown and the next trial.
LifecycleFailureSkipsOneService ==
    /\ [][(mainPc \in {"service", "cmd1", "cmd2", "returned"} /\ exited' /\ ~ exited) =>
            exitBy' = "handler"]_vars
    /\ [][(mainPc \in {"service", "cmd1", "cmd2"} /\ mainPc' = "returned") =>
            /\ ret'.err \in {"chdir", "start", "scale"}
            /\ dirIdx' = dirIdx /\ trial' = trial /\ reports' = reports]_vars
    /\ [][(mainPc = "returned" /\ ret.err \in {"chdir", "start", "scale"}
             /\ mainPc' # mainPc) =>
            /\ mainPc' = "service"
            /\ dirIdx' = dirIdx + 1 /\ trial' = trial /\ reports' = reports]_vars
    /\ [][(mainPc = "shutdown" /\ dirIdx <= Len(serviceDirs) /\ exited' /\ ~ exited) =>
            exitBy' = "handler"]_vars
    /\ [][(mainPc = "shutdown" /\ dirIdx <= Len(serviceDirs) /\ dirIdx' # dirIdx) =>
            (mainPc' = "shutdown" /\ dirIdx' = dirIdx + 1)]_vars
    /\ [][(mainPc = "shutdown" /\ trial < NumTrials /\ mainPc' # mainPc) =>
            mainPc' = "cooldown"]_vars

\* C22 witness: the scaled restart of the first service of the failure
\* harness has failed and its error is back in main.
ScaleFailureReturned ==
    /\ harness = "failure"
    /\ mainPc = "returned"
    /\ ret.err = "scale"
    /\ dirIdx = 1

\* C23 (as claimed): no two lifecycle commands of the process are in flight
\* together: while a docker-compose down of the handler's teardown runs,
\* main has no command running.
OneLifecycleCommandAtATime ==
    (~ exited /\ hPc = "stopping" /\ Len(hStops) < Len(hDirs)) =>
        /\ mainPc \notin {"cmd1", "cmd2"}
        /\ ~ (mainPc = "shutdown" /\ dirIdx <= Len(serviceDirs))

\* C24 (as claimed): getSubdirectories yields every directory below the
\* root, at every depth, once, and nothing else, in each program that
\* defines it.
SubdirsAreAllDirsBelowRoot ==
    probeFn \in {"walk", "readdir"} =>
        /\ \A i, j \in 1 .. Len(listing) : listing[i] = listing[j] => i = j
        /\ {listing[i] : i \in 1 .. Len(listing)} =
             {n \in 1 .. Len(tree) : tree[n].kind = "dir"}

\* C25 (as claimed): every blocking call has an explicit timeout, so main is
\* never inside a call that does not return.
NoCallBlocksForEver == mainPc # "blocked"

\* C28 (as claimed): the request timeout of the health probe is strictly
\* shorter than the polling tick, in both readiness harnesses.
HealthTimeoutBelowTick ==
    mainPc = "health" => healthTimeout(harness) < TickSeconds

\* C26: once the signal has arrived, the handler can always take its next
\* step (the next stop, or the exit after the last one), however many load
\* requests are waiting to be sent or in flight.
TeardownNeverWaitsForRequests ==
    (~ exited /\ hPc \in {"stopping", "stopped"}) =>
        ENABLED (HandlerStop \/ HandlerExit)

\* C26 witness: the handler has stopped a service and ended the process
\* during a batch, with a request still in flight and the WaitGroup not at
\* zero.
ExitedWithRequestInFlight ==
    /\ exited /\ exitBy = "handler"
    /\ Len(hStops) > 0
    /\ mainPc \in {"spawn", "wait"}
    /\ wg > 0
    /\ \E s \in Services : inflight[s] > 0

\* C27: the latency recorded for a load request, whether it succeeded,
\* failed or timed out, is not negative and at most the client timeout plus
\* the scheduling slack.
LatencyWithinTimeout ==
    probeFn = "request" =>
        /\ latency >= 0
        /\ latency <= LoadTimeout + MaxSlack

\* C27 witness: a request whose server never answered has been recorded,
\* with the whole timeout as its latency.
TimedOutRequestRecorded ==
    /\ probeFn = "request"
    /\ ~ probeResp.answers
    /\ start > 0
    /\ latency >= LoadTimeout

\* C29 (as claimed): when the handler has ended the process, the report of
\* every trial that had ended before (main had gone on to a later trial)
\* holds every row written during that trial.
SignalLosesNoCompletedTrial ==
    (exited /\ exitBy = "handler") =>
        \A t \in Trials :
            (t < trial /\ reports[t].state # "none") =>
                fileRows(reports[t]) = reports[t].rows

\* C30: the Service built for a directory has one name as its name, its
\* discovery key and its lifecycle handle, that name is the base name of
\* the directory in lower case, its health URL is
\* http://<name>.localhost/health, and every trial builds the same value.
IdentityIsLowercasedBaseName ==
    \A i \in 1 .. Len(services) :
        LET s == services[i]
            base == probeResp[Len(probeResp)]
        IN /\ s.ConsulKey = s.Name /\ s.DockerName = s.Name
           /\ Len(s.Name) = Len(base)
           /\ \A k \in 1 .. Len(base) :
                /\ s.Name[k] \notin UpperChars
                /\ base[k] \notin UpperChars => s.Name[k] = base[k]
                /\ base[k] = "B" => s.Name[k] = "b"
           /\ Len(s.HealthURL) = Len(s.Name) + 2
           /\ s.HealthURL[1] = "http://"
           /\ s.HealthURL[Len(s.HealthURL)] = ".localhost/health"
           /\ \A k \in 1 .. Len(s.Name) : s.HealthURL[k + 1] = s.Name[k]
           /\ s = services[1]

\* C30 witness: a nested directory whose name has an upper-case letter has
\* gone through the service loop of every trial.
UpperCaseDirInEveryTrial ==
    /\ probeFn = "identity"
    /\ Len(services) = NumTrials
    /\ Len(probeResp) > 1
    /\ \E k \in 1 .. Len(probeResp[Len(probeResp)]) :
         probeResp[Len(probeResp)][k] = "B"

\* C31 (as claimed): when main of the load harness has returned after it
\* started services, it has run the stop command on them.
LoadExitStopsStartedServices ==
    (harness = "latency" /\ exitBy = "main" /\ "up" \in issued) =>
        "down" \in issued

\* C32: the stress levels run one after the other in the order of the
\* list; a level is entered only when every request of the level before it
\* has completed and its rows are written, and the requests waiting to be
\* sent or in flight are never more than N*M, N being the active level.
LevelsRunOneAfterAnother ==
    /\ [][level' # level =>
            /\ level' = level + 1
            /\ level >= 1 =>
                 /\ mainPc = "tested"
                 /\ wg = 0
                 /\ \A s \in Services : pending[s] = 0 /\ inflight[s] = 0
                 /\ count(batchRows) = stressLevels[level] * NumServices]_vars
    /\ [](mainPc \in {"spawn", "wait"} =>
            sumOver(pending, Services) + sumOver(inflight, Services)
                <= stressLevels[level] * NumServices)

\* C32 witness: the last level is active with all its N*M requests in
\* flight at once.
LastLevelAllInFlight ==
    /\ mainPc = "wait"
    /\ level = Len(stressLevels)
    /\ sumOver(inflight, Services) = stressLevels[level] * NumServices

\* C33 (as claimed): the list the handler stops is empty or the complete
\* resolved list, never a list getSubdirectories was still building.
HandlerSeesNoPartialList ==
    hPc # "waiting" => Len(hDirs) \in {0, NumDirs}

\* C34 (as claimed): outside measureDetailedStartupTime the working
\* directory of the process is the directory the harness was started in.
WorkingDirectoryRestored ==
    (harness \in {"failure", "startup"}
        /\ mainPc \notin {"cmd1", "cmd2", "select", "consul", "health",
                          "returned"}) =>
        cwd = currentDir

\* C35: a request goroutine that is still to send finds room in the
\* results channel, every goroutine launched sends once, main blocked in
\* wg.Wait() is never stuck, and when the channel has been closed and
\* drained no goroutine is left to send and the rows are exactly the results
\* that were sent.
ResultsChannelNeverBlocks ==
    /\ (mainPc \in {"spawn", "wait"}
          /\ \E s \in Services : pending[s] + inflight[s] > 0) =>
          count(results) < chanCap(stressLevels[level], NumServices)
    /\ mainPc \in {"spawn", "wait"} =>
          count(results) + sumOver(pending, Services)
              + sumOver(inflight, Services) = spawned
    /\ mainPc = "wait" =>
          \/ \E s \in Services : pending[s] + inflight[s] > 0
          \/ waitReturns(wg)
    /\ mainPc = "tested" =>
          /\ \A s \in Services : pending[s] = 0 /\ inflight[s] = 0
          /\ count(results) = 0
          /\ count(batchRows) = spawned

\* C35 witness: every goroutine of the last level has sent, the channel is
\* filled to its capacity and main has not yet returned from wg.Wait().
ChannelFullBeforeClose ==
    /\ ~ exited
    /\ mainPc = "wait"
    /\ level = Len(stressLevels)
    /\ wg = 0
    /\ count(results) = stressLevels[level] * NumServices

\* C36: the file holds the rows of every stress level whose testServices
\* has returned and nothing of them is left in the writer, at every moment
\* and so also when the handler has ended the process during a later
\* level.
CompletedLevelsAreInTheFile ==
    (csv.state # "none" /\ level >= 1) =>
        LET done == IF mainPc \in {"spawn", "wait"} THEN level - 1 ELSE level
            rowsOf == [l \in 1 .. Len(stressLevels) |->
                          stressLevels[l] * NumServices]
        IN /\ csv.rows = sumOver(rowsOf, 1 .. done)
           /\ done >= 1 => csv.buffered = 0

\* C36 witness: the handler has ended the process during the second stress
\* level, with requests outstanding, and the file holds the rows of the
\* first.
SignalInLaterLevelKeepsRows ==
    /\ exited /\ exitBy = "handler"
    /\ mainPc \in {"spawn", "wait"}
    /\ level = 2
    /\ spawned > 0
    /\ csv.rows = stressLevels[1] * NumServices

\* C37: a data row of the startup report has
\* 0 <= ContainerStartTime <= min(ConsulCheckTime, HealthCheckTime) and
\* max(ConsulCheckTime, HealthCheckTime) <= TotalStartupTime, and
\* ContainerStartTime is the time the start command took.
StartupTimesOrdered ==
    (harness = "startup" /\ wrote # <<>>) =>
        LET total == wrote[2]
            consul == wrote[3]
            health == wrote[4]
            container == wrote[6]
        IN /\ 0 <= container
           /\ container = cmdTime
           /\ container <= consul /\ container <= health
           /\ consul <= total /\ health <= total

\* C37 witness: a row was written for a service whose start command took
\* time and whose registry check passed a tick before its health check.
SlowStartRowWritten ==
    /\ harness = "startup"
    /\ wrote # <<>>
    /\ wrote[6] > 0
    /\ wrote[3] < wrote[4]
    /\ wrote[4] = wrote[2]

\* C38: a data row of the startup report has ConsulChecksPassed = true and
\* a discovery time and a health time that are not zero, and a row is
\* written only for a measurement that returned from a tick in which both
\* flags were set.
StartupRowMeansBothReady ==
    /\ []((harness = "startup" /\ wrote # <<>>) =>
              (wrote[5] = TRUE /\ wrote[3] > 0 /\ wrote[4] > 0))
    /\ [][(wrote' # <<>> /\ wrote = <<>>) =>
              /\ mainPc = "returned"
              /\ ret.err = "nil"
              /\ consulReady /\ serviceHealthy
              /\ consulTime > 0 /\ healthTime > 0]_vars

\* C38 witness: a row was written for a service whose start command took no
\* time and whose two signals first passed in the same tick.
BothPassedInOneTickRow ==
    /\ harness = "startup"
    /\ wrote # <<>>
    /\ cmdTime = 0
    /\ wrote[5] = TRUE
    /\ wrote[3] = wrote[4]

\* C39 (as claimed): a CRUD service is registered only while it has a bound
\* port, its entry is removed only after its server was shut down, and a
\* service that came to its end through the signal, the shutdown and the
\* return of main is not registered any more.
GracefulShutdownDeregisters ==
    /\ svc.registered => svc.port # 0
    /\ svc.pc = "deregister" => ~ svc.serving
    /\ (svc.pc = "exited" /\ svc.exitHow = "graceful") => ~ svc.registered

====
